---- MODULE Spec2Model ----
(***************************************************************************)
(* Model of agente.py: the news search tool, the sentiment tool, the token *)
(* monitor callback and the interactive loop.                              *)
(*                                                                         *)
(* Python strings are modelled by what the code concatenates: a string is  *)
(* a sequence of pieces (literals of the f-string and interpolated         *)
(* values); the operator's input line is a sequence of characters.         *)
(***************************************************************************)
EXTENDS Integers, Sequences, FiniteSets, TLC

VARIABLES
    s_pc, s_query, s_results, s_calls, s_returned, s_ret, s_raised, s_exc,
    s_stdout, s_primary_count,
    a_pc, a_polarity, a_ret,
    m_calls, m_response, m_stdout, m_raised, m_swallowed,
    l_state, user_input, l_turns, l_invoked, l_exc, l_uncaught, l_stdout

svars == <<s_pc, s_query, s_results, s_calls, s_returned, s_ret, s_raised,
           s_exc, s_stdout, s_primary_count>>
avars == <<a_pc, a_polarity, a_ret>>
mvars == <<m_calls, m_response, m_stdout, m_raised, m_swallowed>>
lvars == <<l_state, user_input, l_turns, l_invoked, l_exc, l_uncaught,
           l_stdout>>
vars == <<svars, avars, mvars, lvars>>

(* ---------------------------------------------------------------------- *)
(* Bounds                                                                  *)
(* ---------------------------------------------------------------------- *)
MaxResults == 2
MaxGens == 2
MaxCalls == 2
MaxTurns == 3

(* ---------------------------------------------------------------------- *)
(* Exceptions                                                              *)
(* ---------------------------------------------------------------------- *)
NoExc == [cls |-> "none", msg |-> ""]

\* Failures of the search provider: network failure, rate limiting, parsing.
ProviderErrors ==
    { [cls |-> "TimeoutException", msg |-> "timed out"],
      [cls |-> "RatelimitException", msg |-> "202 Ratelimit"],
      [cls |-> "DuckDuckGoSearchException", msg |-> "parse error"] }

\* item.get on a result that is not a mapping.
AttributeErrorExc == [cls |-> "AttributeError", msg |-> "no attribute 'get'"]

\* Failures of AgentExecutor.invoke.
ExecutorErrors ==
    { [cls |-> "OutputParserException", msg |-> "could not parse"],
      [cls |-> "ResourceExhausted", msg |-> "429 quota"],
      [cls |-> "ValueError", msg |-> "bad tool input"] }

\* Classes derived from Exception, among those the model raises.
ExceptionSubclasses ==
    { "TimeoutException", "RatelimitException", "DuckDuckGoSearchException",
      "AttributeError", "IndexError", "OutputParserException",
      "ResourceExhausted", "ValueError" }

(* ---------------------------------------------------------------------- *)
(* search_news_english                                                     *)
(* ---------------------------------------------------------------------- *)
Topics == { "Bitcoin", "zzz_no_such_topic_xyz" }

\* A key the result does not carry.
Absent == "<absent>"

\* Results as the provider yields them: mappings with optional keys, or a
\* value that is no mapping at all.
MappingItems ==
    [ mapping : {TRUE},
      title   : {Absent, "Rally"},
      body    : {Absent, "Prices rose."},
      snippet : {Absent, "Snippet text"},
      source  : {Absent, "Reuters"},
      date    : {Absent, "2024-05-01"} ]

NotAMapping ==
    [ mapping |-> FALSE, title |-> Absent, body |-> Absent,
      snippet |-> Absent, source |-> Absent, date |-> Absent ]

Items == MappingItems \cup {NotAMapping}

ResultLists == UNION { [1..n -> Items] : n \in 0..MaxResults }

NewsCall(query) ==
    [ endpoint |-> "news", keywords |-> <<query>>, region |-> "us-en",
      max_results |-> 5 ]

TextCall(query) ==
    [ endpoint |-> "text", keywords |-> <<query, " news">>,
      region |-> "us-en", max_results |-> 5 ]

\* dict.get(key, default)
ItemGet(item, key, default) ==
    IF item[key] = Absent THEN default ELSE item[key]

\* One pass of the for loop body: the line appended for one item.
FormatItem(item) ==
    LET title  == ItemGet(item, "title", "No title")
        body   == ItemGet(item, "body", ItemGet(item, "snippet", ""))
        source == ItemGet(item, "source", "Unknown Source")
        date   == ItemGet(item, "date", "")
    IN  << "- [", date, "] ", title, " (", source, "): ", body, "\n" >>

\* formatted_results after the pass for one item.
AccumulateDrop(formatted_results, line) == line

Accumulate(formatted_results, line) == formatted_results \o line

\* The for loop from item i on; the loop stops with AttributeError at the
\* first item that has no get.
RECURSIVE FormatLoop(_, _, _)
FormatLoop(results, i, formatted_results) ==
    IF i > Len(results)
    THEN [ exc |-> NoExc, value |-> formatted_results ]
    ELSE IF ~results[i].mapping
         THEN [ exc |-> AttributeErrorExc, value |-> << >> ]
         ELSE FormatLoop(results, i + 1,
                         Accumulate(formatted_results, FormatItem(results[i])))

\* `except Exception`
SearchExceptCatchesNarrow(cls) ==
    cls \in { "TimeoutException", "RatelimitException" }

SearchExceptCatches(cls) == cls \in ExceptionSubclasses

\* The second `if not results` test.
StillNoResultsNever(results) == FALSE

StillNoResults(results) == results = << >>

\* The first `if not results` test.
NeedsFallbackAlways(results) == TRUE

NeedsFallback(results) == results = << >>

\* s_primary_count records how many results the news query returned.
NotYet == 0 - 1

\* Leaving the try block with exception e.
SearchRaise(e) ==
    /\ s_exc' = e
    /\ s_pc' = "done"
    /\ IF SearchExceptCatches(e.cls)
       THEN /\ s_returned' = TRUE
            /\ s_ret' = << "Critical error in search tool: ", e.msg >>
            /\ s_raised' = NoExc
       ELSE /\ s_raised' = e
            /\ UNCHANGED <<s_returned, s_ret>>

\* The tool is called: the progress line is printed, the try block entered.
SearchCall ==
    /\ s_pc = "idle"
    /\ \E query \in Topics :
         /\ s_query' = query
         /\ s_stdout' = Append(s_stdout,
                <<"\nSearching for news about: '", query,
                  "' (Region: US-EN)...">>)
    /\ s_pc' = "try"
    /\ UNCHANGED <<s_results, s_calls, s_returned, s_ret, s_raised, s_exc,
                   s_primary_count>>
    /\ UNCHANGED <<avars, mvars, lvars>>

\* DDGS() and ddgs.news(...) consumed by list(): a list of results, or an
\* exception.
NewsQuery ==
    /\ s_pc = "try"
    /\ s_calls' = Append(s_calls, NewsCall(s_query))
    /\ \/ \E r \in ResultLists :
            /\ s_results' = r
            /\ s_primary_count' = Len(r)
            /\ s_pc' = "after_news"
            /\ UNCHANGED <<s_returned, s_ret, s_raised, s_exc>>
       \/ \E e \in ProviderErrors :
            /\ SearchRaise(e)
            /\ UNCHANGED <<s_results, s_primary_count>>
    /\ UNCHANGED <<s_query, s_stdout>>
    /\ UNCHANGED <<avars, mvars, lvars>>

\* ddgs.text(...) consumed by list(), issued when the first test finds no
\* results.
TextQuery ==
    /\ s_pc = "after_news"
    /\ NeedsFallback(s_results)
    /\ s_calls' = Append(s_calls, TextCall(s_query))
    /\ \/ \E r \in ResultLists :
            /\ s_results' = r
            /\ s_pc' = "after_text"
            /\ UNCHANGED <<s_returned, s_ret, s_raised, s_exc>>
       \/ \E e \in ProviderErrors :
            /\ SearchRaise(e)
            /\ UNCHANGED s_results
    /\ UNCHANGED <<s_query, s_stdout, s_primary_count>>
    /\ UNCHANGED <<avars, mvars, lvars>>

\* From the second test to the return: the fixed message, or the loop.
FormatAndReturn ==
    /\ \/ s_pc = "after_news" /\ ~NeedsFallback(s_results)
       \/ s_pc = "after_text"
    /\ IF StillNoResults(s_results)
       THEN /\ s_returned' = TRUE
            /\ s_ret' = << "No news found." >>
            /\ s_pc' = "done"
            /\ UNCHANGED <<s_raised, s_exc>>
       ELSE LET r == FormatLoop(s_results, 1, << >>) IN
            IF r.exc # NoExc
            THEN SearchRaise(r.exc)
            ELSE /\ s_returned' = TRUE
                 /\ s_ret' = r.value
                 /\ s_pc' = "done"
                 /\ UNCHANGED <<s_raised, s_exc>>
    /\ UNCHANGED <<s_query, s_results, s_calls, s_stdout, s_primary_count>>
    /\ UNCHANGED <<avars, mvars, lvars>>

SearchInit ==
    /\ s_pc = "idle"
    /\ s_query = ""
    /\ s_results = << >>
    /\ s_calls = << >>
    /\ s_returned = FALSE
    /\ s_ret = << >>
    /\ s_raised = NoExc
    /\ s_exc = NoExc
    /\ s_stdout = << >>
    /\ s_primary_count = NotYet

SearchNext == SearchCall \/ NewsQuery \/ TextQuery \/ FormatAndReturn

(* ---------------------------------------------------------------------- *)
(* analyze_sentiment                                                       *)
(* ---------------------------------------------------------------------- *)
\* TextBlob polarity lies in [-1.0, 1.0]; the model carries it in
\* thousandths, so 0.1 is 100 and -0.1 is -100.
PolarityValues == -1000 .. 1000

PositiveThreshold == 100

NegativeThreshold == 0 - 100

Digits == << "0", "1", "2", "3", "4", "5", "6", "7", "8", "9" >>

Digit(n) == Digits[n + 1]

\* Magnitudes x.xx5 whose binary double lies above the decimal tie, so that
\* the format specifier .2f rounds them up (the others lie below it).
TiesRoundedUp ==
    { 5, 25, 35, 55, 65, 85, 95, 115, 135, 165, 195, 225, 255, 265, 275,
      315, 325, 335, 375, 385, 395, 405, 445, 455, 465, 505, 515, 525, 535,
      545, 555, 635, 645, 655, 665, 675, 685, 755, 765, 775, 785, 795, 805,
      875, 885, 895, 905, 915, 925, 935 }

Abs(n) == IF n < 0 THEN 0 - n ELSE n

\* The magnitude in hundredths printed by .2f.
RoundHundredthsTruncate(p) == Abs(p) \div 10

RoundHundredths(p) ==
    LET a == Abs(p)
        h == a \div 10
        r == a % 10
    IN  IF r > 5 \/ (r = 5 /\ a \in TiesRoundedUp) THEN h + 1 ELSE h

\* f"{polarity:.2f}" as characters; a negative value keeps its sign even
\* when it rounds to zero.
Fmt2(p) ==
    LET h == RoundHundredths(p)
        sign == IF p < 0 THEN << "-" >> ELSE << >>
    IN  sign \o << Digit(h \div 100), ".", Digit((h \div 10) % 10),
                   Digit(h % 10) >>

\* The if / elif / else of analyze_sentiment and the string each returns.
SentimentMessageInclusive(polarity) ==
    IF polarity >= PositiveThreshold
    THEN << "POLARITY SCORE: " >> \o Fmt2(polarity)
         \o << " (", "POSITIVE", "). Content is generally positive." >>
    ELSE IF polarity =< NegativeThreshold
    THEN << "POLARITY SCORE: " >> \o Fmt2(polarity)
         \o << " (", "NEGATIVE", "). Content is generally negative." >>
    ELSE << "POLARITY SCORE: " >> \o Fmt2(polarity)
         \o << " (", "NEUTRAL", "). Content is neutral." >>

SentimentMessage(polarity) ==
    IF polarity > PositiveThreshold
    THEN << "POLARITY SCORE: " >> \o Fmt2(polarity)
         \o << " (", "POSITIVE", "). Content is generally positive." >>
    ELSE IF polarity < NegativeThreshold
    THEN << "POLARITY SCORE: " >> \o Fmt2(polarity)
         \o << " (", "NEGATIVE", "). Content is generally negative." >>
    ELSE << "POLARITY SCORE: " >> \o Fmt2(polarity)
         \o << " (", "NEUTRAL", "). Content is neutral." >>

\* One call of the tool: TextBlob yields a polarity for the text, the
\* message is returned.
AnalyzeSentiment ==
    /\ a_pc = "idle"
    /\ \E polarity \in PolarityValues :
         /\ a_polarity' = polarity
         /\ a_ret' = SentimentMessage(polarity)
    /\ a_pc' = "done"
    /\ UNCHANGED <<svars, mvars, lvars>>

\* The caller takes the result; the tool can be called again.
SentimentReturn ==
    /\ a_pc = "done"
    /\ a_pc' = "idle"
    /\ a_ret' = << >>
    /\ a_polarity' = 0
    /\ UNCHANGED <<svars, mvars, lvars>>

SentimentInit ==
    /\ a_pc = "idle"
    /\ a_polarity = 0
    /\ a_ret = << >>

SentimentNext == AnalyzeSentiment \/ SentimentReturn

(* ---------------------------------------------------------------------- *)
(* TokenMonitorCallback.on_llm_end                                         *)
(* ---------------------------------------------------------------------- *)
\* The value of "usage_metadata": None, or a mapping with or without
\* "total_tokens".
NoneUsage == [ type |-> "None", has_total |-> FALSE, total_tokens |-> 0 ]

EmptyDict == [ type |-> "dict", has_total |-> FALSE, total_tokens |-> 0 ]

Usages ==
    { NoneUsage, EmptyDict }
    \cup { [ type |-> "dict", has_total |-> TRUE, total_tokens |-> t ] :
           t \in {0, 42} }

\* The value of generation_info: None, a string, or a mapping with or
\* without "usage_metadata" and with or without other keys.
NoneInfo ==
    [ type |-> "None", has_usage |-> FALSE, usage_metadata |-> EmptyDict,
      other_keys |-> FALSE ]

StrInfo ==
    [ type |-> "str", has_usage |-> FALSE, usage_metadata |-> EmptyDict,
      other_keys |-> FALSE ]

Infos ==
    { NoneInfo, StrInfo }
    \cup { [ type |-> "dict", has_usage |-> FALSE,
             usage_metadata |-> EmptyDict, other_keys |-> o ] :
           o \in BOOLEAN }
    \cup [ type : {"dict"}, has_usage : {TRUE}, usage_metadata : Usages,
           other_keys : BOOLEAN ]

\* A generation: an object with or without the attribute generation_info.
Generations ==
    { [ has_generation_info |-> FALSE, generation_info |-> NoneInfo ] }
    \cup [ has_generation_info : {TRUE}, generation_info : Infos ]

GenerationLists == UNION { [1..n -> Generations] : n \in 0..MaxGens }

\* A response: an object with or without the attribute generations, which
\* is a list holding at most one list of generations.
Responses ==
    { [ has_generations |-> FALSE, generations |-> << >> ],
      [ has_generations |-> TRUE, generations |-> << >> ] }
    \cup { [ has_generations |-> TRUE, generations |-> << gl >> ] :
           gl \in GenerationLists }

NoTotal == 0 - 1

TokenLabel == "\n [TOKEN MONITOR] Total tokens used in this step: "

Rule == "--------------------------------------------------"

\* Python truthiness of generation_info.
Truthy(info) ==
    \/ info.type = "str"
    \/ info.type = "dict" /\ (info.has_usage \/ info.other_keys)

MonitorRaise(cls) == [ exc |-> cls, lines |-> << >> ]

\* What the two print calls write for a total.
PrintTotalUnlessDefault(usage) ==
    IF usage.has_total
    THEN << [ text |-> TokenLabel, total |-> usage.total_tokens ],
            [ text |-> Rule, total |-> NoTotal ] >>
    ELSE << >>

PrintTotal(usage) ==
    << [ text |-> TokenLabel,
         total |-> IF usage.has_total THEN usage.total_tokens ELSE 0 ],
       [ text |-> Rule, total |-> NoTotal ] >>

\* The body of the try block: the exception it raises, if any, and the
\* lines it prints.
TryBody(response) ==
    IF ~response.has_generations THEN MonitorRaise("AttributeError")
    ELSE IF response.generations = << >> THEN MonitorRaise("IndexError")
    ELSE LET generations == response.generations[1] IN
    IF generations = << >> THEN [ exc |-> "none", lines |-> << >> ]
    ELSE IF ~generations[1].has_generation_info
    THEN MonitorRaise("AttributeError")
    ELSE LET info == generations[1].generation_info IN
    IF ~Truthy(info) THEN [ exc |-> "none", lines |-> << >> ]
    ELSE IF info.type # "dict" THEN MonitorRaise("AttributeError")
    ELSE LET usage == IF info.has_usage THEN info.usage_metadata
                      ELSE EmptyDict IN
    IF usage.type # "dict" THEN MonitorRaise("AttributeError")
    ELSE [ exc |-> "none", lines |-> PrintTotal(usage) ]

\* The bare `except:` clause.
MonitorExceptCatchesAttributeError(cls) == cls = "AttributeError"

MonitorExceptCatches(cls) == TRUE

\* One call of the callback by the reasoning engine; m_stdout holds what
\* this call printed.
OnLlmEnd ==
    /\ m_calls < MaxCalls
    /\ m_raised = "none"
    /\ m_calls' = m_calls + 1
    /\ \E response \in Responses :
         LET r == TryBody(response) IN
         /\ m_response' = response
         /\ m_stdout' = r.lines
         /\ IF r.exc = "none"
            THEN m_raised' = "none" /\ m_swallowed' = "none"
            ELSE IF MonitorExceptCatches(r.exc)
            THEN m_raised' = "none" /\ m_swallowed' = r.exc
            ELSE m_raised' = r.exc /\ m_swallowed' = "none"
    /\ UNCHANGED <<svars, avars, lvars>>

MonitorInit ==
    /\ m_calls = 0
    /\ m_response = [ has_generations |-> FALSE, generations |-> << >> ]
    /\ m_stdout = << >>
    /\ m_raised = "none"
    /\ m_swallowed = "none"

MonitorNext == OnLlmEnd

(* ---------------------------------------------------------------------- *)
(* The interactive loop                                                    *)
(* ---------------------------------------------------------------------- *)
UpperCase ==
    << "A", "B", "C", "D", "E", "F", "G", "H", "I", "J", "K", "L", "M",
       "N", "O", "P", "Q", "R", "S", "T", "U", "V", "W", "X", "Y", "Z" >>

LowerCase ==
    << "a", "b", "c", "d", "e", "f", "g", "h", "i", "j", "k", "l", "m",
       "n", "o", "p", "q", "r", "s", "t", "u", "v", "w", "x", "y", "z" >>

\* str.lower() on one character.
LowerChar(c) ==
    IF \E i \in 1..26 : UpperCase[i] = c
    THEN LowerCase[CHOOSE i \in 1..26 : UpperCase[i] = c]
    ELSE c

\* str.lower()
LowerIdentity(line) == line

Lower(line) == [ i \in 1..Len(line) |-> LowerChar(line[i]) ]

\* The list ['sair', 'x'].
ExitWords == { << "s", "a", "i", "r" >>, << "x" >> }

\* The test of the if statement.
IsExitPrefix(line) ==
    \E w \in ExitWords :
        /\ Len(line) >= Len(w)
        /\ SubSeq(Lower(line), 1, Len(w)) = w

IsExit(line) == Lower(line) \in ExitWords

\* Lines the operator may type: the exit words in every letter case, and
\* lines that are no exit word.
LettersOf(c) ==
    { c } \cup { UpperCase[i] : i \in { j \in 1..26 : LowerCase[j] = c } }

CaseVariants(w) ==
    { line \in [1..Len(w) -> UNION { LettersOf(w[i]) : i \in 1..Len(w) }] :
        \A i \in 1..Len(w) : line[i] \in LettersOf(w[i]) }

OtherLines ==
    { << >>, << "B", "i", "t", "c", "o", "i", "n" >>, << "s", "a", "i" >>,
      << "x", " " >>, << " ", "X" >>, << "X", "X" >>,
      << "s", "a", "i", "r", "x" >>, << "e", "x", "i", "t" >>,
      << "S", "A", "I", "R", " " >> }

InputLines == UNION { CaseVariants(w) : w \in ExitWords } \cup OtherLines

\* The instruction built around the line.
PromptCompleto(line) ==
    << "Please, search for the latest news about '", line, "'. ",
       "Use the 'Search_News' tool first. ",
       "Then, YOU MUST use the 'Analyze_Sentiment' tool on the content found to get the polarity. ",
       "Finally, answer me in PORTUGUESE (PT-BR) summarizing the news and stating the sentiment found." >>

\* `except Exception` around invoke.
LoopExceptCatchesValueError(cls) == cls = "ValueError"

LoopExceptCatches(cls) == cls \in ExceptionSubclasses

\* input(...) and the exit test: break, or go on to the dispatch.
ReadInput ==
    /\ l_state = "AwaitingInput"
    /\ l_turns < MaxTurns
    /\ l_turns' = l_turns + 1
    /\ \E line \in InputLines :
         /\ user_input' = line
         /\ l_state' = IF IsExit(line) THEN "Terminated" ELSE "Dispatching"
    /\ l_exc' = NoExc
    /\ UNCHANGED <<l_invoked, l_uncaught, l_stdout>>
    /\ UNCHANGED <<svars, avars, mvars>>

\* agent_executor.invoke(...) with the instruction: it answers, or raises.
Dispatch ==
    /\ l_state = "Dispatching"
    /\ l_invoked' = Append(l_invoked, PromptCompleto(user_input))
    /\ \/ /\ l_state' = "AwaitingInput"
          /\ UNCHANGED <<l_exc, l_uncaught, l_stdout>>
       \/ \E e \in ExecutorErrors :
            /\ l_exc' = e
            /\ IF LoopExceptCatches(e.cls)
               THEN /\ l_stdout' = Append(l_stdout, << "Error: ", e.msg >>)
                    /\ l_state' = "AwaitingInput"
                    /\ UNCHANGED l_uncaught
               ELSE /\ l_uncaught' = e
                    /\ l_state' = "Terminated"
                    /\ UNCHANGED l_stdout
    /\ UNCHANGED <<user_input, l_turns>>
    /\ UNCHANGED <<svars, avars, mvars>>

LoopInit ==
    /\ l_state = "AwaitingInput"
    /\ user_input = << >>
    /\ l_turns = 0
    /\ l_invoked = << >>
    /\ l_exc = NoExc
    /\ l_uncaught = NoExc
    /\ l_stdout = << "### AGENTE AVALIADOR DE NOTICIAS ###" >>

LoopNext == ReadInput \/ Dispatch

(* ---------------------------------------------------------------------- *)
(* Specifications                                                          *)
(* ---------------------------------------------------------------------- *)
Init == SearchInit /\ SentimentInit /\ MonitorInit /\ LoopInit

SpecSearch == Init /\ [][SearchNext]_vars

SpecSentiment == Init /\ [][SentimentNext]_vars

SpecMonitor == Init /\ [][MonitorNext]_vars

SpecLoop == Init /\ [][LoopNext]_vars

(* ---------------------------------------------------------------------- *)
(* Properties of search_news_english                                       *)
(* ---------------------------------------------------------------------- *)
ErrorIndicator == "Critical error in search tool: "

IssuedTextCalls == { i \in DOMAIN s_calls : s_calls[i].endpoint = "text" }

\* A string is empty when every piece of it is.
IsEmptyString(str) == \A i \in DOMAIN str : str[i] = ""

\* C1: an exception raised on the news query, on the text query or while
\* the results are formatted ends the call with a returned string that
\* carries the error indicator, and no exception reaches the caller.
C1_ErrorsBecomeStrings ==
    /\ s_raised = NoExc
    /\ (s_pc = "done" /\ s_exc # NoExc) =>
          /\ s_returned
          /\ \E i \in DOMAIN s_ret : s_ret[i] = ErrorIndicator

\* The text query raised after an empty news query, and the call returned.
C1_Witness ==
    /\ s_pc = "done"
    /\ Len(s_calls) = 2
    /\ s_exc.cls = "DuckDuckGoSearchException"
    /\ s_returned

\* C2: the text query is issued at most once, only after the news query
\* returned no result; it is never issued once the news query returned one
\* result or more.
C2_FallbackOnlyAfterEmptyPrimary ==
    /\ Cardinality(IssuedTextCalls) =< 1
    /\ s_primary_count >= 1 => IssuedTextCalls = {}
    /\ IssuedTextCalls # {} =>
          /\ s_primary_count = 0
          /\ s_calls[1].endpoint = "news"
          /\ IssuedTextCalls = {2}

\* The news query returned results and the call ran to its end.
C2_Witness ==
    /\ s_pc = "done"
    /\ s_primary_count >= 1
    /\ s_returned
    /\ s_exc = NoExc

\* C3: when the news query and the text query both return no result, the
\* call returns the fixed message, a non-empty string, and raises nothing.
C3_BothEmptyGivesNoNews ==
    ( /\ s_pc = "done"
      /\ s_primary_count = 0
      /\ Len(s_calls) = 2
      /\ s_exc = NoExc
      /\ s_results = << >> ) =>
        /\ s_returned
        /\ s_ret = << "No news found." >>
        /\ ~IsEmptyString(s_ret)
        /\ s_raised = NoExc

\* Both queries came back empty and the call is over.
C3_Witness ==
    /\ s_pc = "done"
    /\ s_primary_count = 0
    /\ Len(s_calls) = 2
    /\ s_exc = NoExc
    /\ s_results = << >>

\* The number of line ends in a string.
LineCount(str) == Cardinality({ i \in DOMAIN str : str[i] = "\n" })

\* The k-th line of a block of lines of nine pieces each.
LineOf(str, k) == SubSeq(str, 9 * (k - 1) + 1, 9 * k)

OrElse(value, placeholder) == IF value = Absent THEN placeholder ELSE value

\* The call returned a block for s_results.
ReturnedBlock ==
    /\ s_pc = "done"
    /\ s_exc = NoExc
    /\ s_returned
    /\ Len(s_results) >= 1

\* C7 as stated: N results give N lines in the provider's order, each
\* '- [date] title (source): body', a missing body rendered empty, a missing
\* source as the unknown sentinel and a missing date empty.
C7_LinesWithEmptyBodyPlaceholder ==
    ReturnedBlock =>
        /\ LineCount(s_ret) = Len(s_results)
        /\ Len(s_ret) = 9 * Len(s_results)
        /\ \A k \in 1..Len(s_results) :
             LineOf(s_ret, k) =
                << "- [", OrElse(s_results[k].date, ""), "] ",
                   OrElse(s_results[k].title, "No title"), " (",
                   OrElse(s_results[k].source, "Unknown Source"), "): ",
                   OrElse(s_results[k].body, ""), "\n" >>

\* C7 amended: as above, except that a missing body is rendered as the
\* result's snippet when it has one, and empty only when it has neither.
C7_LinesInProviderOrder ==
    ReturnedBlock =>
        /\ LineCount(s_ret) = Len(s_results)
        /\ Len(s_ret) = 9 * Len(s_results)
        /\ \A k \in 1..Len(s_results) :
             LineOf(s_ret, k) =
                << "- [", OrElse(s_results[k].date, ""), "] ",
                   OrElse(s_results[k].title, "No title"), " (",
                   OrElse(s_results[k].source, "Unknown Source"), "): ",
                   OrElse(s_results[k].body,
                          OrElse(s_results[k].snippet, "")), "\n" >>

\* Two different results were returned by the text query, the second with
\* every field missing but its snippet.
C7_Witness ==
    /\ ReturnedBlock
    /\ Len(s_calls) = 2
    /\ Len(s_results) = 2
    /\ s_results[1] # s_results[2]
    /\ s_results[2].body = Absent
    /\ s_results[2].snippet # Absent
    /\ s_results[2].source = Absent

(* ---------------------------------------------------------------------- *)
(* Properties of analyze_sentiment                                         *)
(* ---------------------------------------------------------------------- *)
Labels == { "POSITIVE", "NEGATIVE", "NEUTRAL" }

LabelsIn(str) == { i \in DOMAIN str : str[i] \in Labels }

DigitValue(c) == CHOOSE n \in 0..9 : Digits[n + 1] = c

IsDigit(c) == \E n \in 0..9 : Digits[n + 1] = c

\* A string of the shape d.dd
IsTwoDecimals(chars) ==
    /\ Len(chars) = 4
    /\ IsDigit(chars[1]) /\ chars[2] = "." /\ IsDigit(chars[3])
    /\ IsDigit(chars[4])

\* Its value in hundredths.
HundredthsOf(chars) ==
    100 * DigitValue(chars[1]) + 10 * DigitValue(chars[3])
    + DigitValue(chars[4])

\* chars is polarity p (in thousandths) written with two decimals: the
\* nearest hundredth, with the sign of p.
IsPolarityToTwoDecimals(chars, p) ==
    LET digits == IF p < 0 THEN Tail(chars) ELSE chars IN
    /\ p < 0 => (Len(chars) >= 1 /\ chars[1] = "-")
    /\ IsTwoDecimals(digits)
    /\ Abs(10 * HundredthsOf(digits) - Abs(p)) =< 5

\* The three-way classification of the spec, in thousandths.
LabelFor(p) ==
    IF p > 100 THEN "POSITIVE" ELSE IF p < 0 - 100 THEN "NEGATIVE"
    ELSE "NEUTRAL"

\* C6: the text is labelled POSITIVE iff the polarity is above 0.1,
\* NEGATIVE iff it is below -0.1 and NEUTRAL otherwise, 0.1 and -0.1
\* included; the result carries exactly one label.
C6_ThreeWayLabel ==
    a_pc = "done" =>
        /\ Cardinality(LabelsIn(a_ret)) = 1
        /\ \A i \in LabelsIn(a_ret) :
             /\ a_ret[i] = "POSITIVE" <=> a_polarity > 100
             /\ a_ret[i] = "NEGATIVE" <=> a_polarity < 0 - 100
             /\ a_ret[i] = "NEUTRAL" <=>
                  (a_polarity >= 0 - 100 /\ a_polarity =< 100)

\* The polarity is exactly 0.1 and the text was labelled.
C6_Witness ==
    /\ a_pc = "done"
    /\ a_polarity = 100
    /\ \E i \in DOMAIN a_ret : a_ret[i] = "NEUTRAL"

\* C9 as stated: the result reads '<LABEL> (Score: <polarity, 2 decimals>)'.
C9_LabelThenScore ==
    a_pc = "done" =>
        /\ Len(a_ret) >= 4
        /\ a_ret[1] = LabelFor(a_polarity)
        /\ a_ret[2] = " (Score: "
        /\ IsPolarityToTwoDecimals(SubSeq(a_ret, 3, Len(a_ret) - 1),
                                   a_polarity)
        /\ a_ret[Len(a_ret)] = ")"

\* C9 amended: the result reads 'POLARITY SCORE: <polarity, 2 decimals>
\* (<LABEL>). <sentence>': the score comes first, the label of the three-way
\* classification follows in parentheses, then a sentence stating it.
C9_ScoreThenLabel ==
    a_pc = "done" =>
        /\ Len(a_ret) >= 5
        /\ a_ret[1] = "POLARITY SCORE: "
        /\ IsPolarityToTwoDecimals(SubSeq(a_ret, 2, Len(a_ret) - 3),
                                   a_polarity)
        /\ a_ret[Len(a_ret) - 2] = " ("
        /\ a_ret[Len(a_ret) - 1] = LabelFor(a_polarity)
        /\ a_ret[Len(a_ret)] \in
             { "). Content is generally positive.",
               "). Content is generally negative.",
               "). Content is neutral." }

\* A negative polarity with a third decimal to round away was formatted.
C9_Witness ==
    /\ a_pc = "done"
    /\ a_polarity = 0 - 127
    /\ SubSeq(a_ret, 2, 6) = << "-", "0", ".", "1", "3" >>

(* ---------------------------------------------------------------------- *)
(* Properties of TokenMonitorCallback.on_llm_end                           *)
(* ---------------------------------------------------------------------- *)
\* The response has a first generation that carries generation metadata.
HasFirstInfo(response) ==
    /\ response.has_generations
    /\ Len(response.generations) >= 1
    /\ Len(response.generations[1]) >= 1
    /\ response.generations[1][1].has_generation_info

FirstInfo(response) == response.generations[1][1].generation_info

\* A token-usage total is found in the generation metadata.
TotalFound(response) ==
    /\ HasFirstInfo(response)
    /\ FirstInfo(response).type = "dict"
    /\ FirstInfo(response).has_usage
    /\ FirstInfo(response).usage_metadata.type = "dict"
    /\ FirstInfo(response).usage_metadata.has_total

\* The generation metadata is a non-empty mapping whose usage entry, when
\* it has one, is a mapping.
MetadataPresent(response) ==
    /\ HasFirstInfo(response)
    /\ FirstInfo(response).type = "dict"
    /\ FirstInfo(response).has_usage \/ FirstInfo(response).other_keys
    /\ FirstInfo(response).has_usage =>
          FirstInfo(response).usage_metadata.type = "dict"

TokenLines == { i \in DOMAIN m_stdout : m_stdout[i].text = TokenLabel }

\* C8: whatever the shape of the response, the callback returns normally:
\* a failed navigation raises nothing into the reasoning loop and prints
\* nothing, no error included.
C8_FailuresDiscarded ==
    /\ m_raised = "none"
    /\ \A i \in DOMAIN m_stdout : m_stdout[i].text \in { TokenLabel, Rule }
    /\ m_swallowed # "none" => m_stdout = << >>

\* The callback ran on a response with an empty generations list.
C8_Witness ==
    /\ m_calls >= 1
    /\ m_swallowed = "IndexError"
    /\ m_response.generations = << >>

\* C10 as stated: a token count is printed only if a total is found in the
\* generation metadata; when the total is absent nothing is printed.
C10_PrintsOnlyFoundTotal ==
    m_calls >= 1 =>
        /\ TokenLines # {} => TotalFound(m_response)
        /\ ~TotalFound(m_response) => m_stdout = << >>

\* C10 amended: a token count is printed exactly when the first generation
\* carries non-empty generation metadata; the count is the total when one is
\* found and 0 when the usage entry or its total is absent; otherwise
\* nothing is printed.
C10_PrintsTotalOrZero ==
    m_calls >= 1 =>
        /\ TokenLines # {} <=> MetadataPresent(m_response)
        /\ Cardinality(TokenLines) =< 1
        /\ \A i \in TokenLines :
             m_stdout[i].total =
                IF TotalFound(m_response)
                THEN FirstInfo(m_response).usage_metadata.total_tokens
                ELSE 0
        /\ ~MetadataPresent(m_response) => m_stdout = << >>

\* Generation metadata without a usage entry: the count 0 was printed.
C10_Witness ==
    /\ m_calls >= 1
    /\ HasFirstInfo(m_response)
    /\ ~FirstInfo(m_response).has_usage
    /\ \E i \in TokenLines : m_stdout[i].total = 0

(* ---------------------------------------------------------------------- *)
(* Properties of the interactive loop                                      *)
(* ---------------------------------------------------------------------- *)
\* The line is 'sair' or 'x' in some letter case.
IsSentinelAnyCase(line) == \E w \in ExitWords : line \in CaseVariants(w)

\* A line was read in this step.
LineRead == l_state = "AwaitingInput" /\ l_turns' = l_turns + 1

\* C4: reading an exit word in any letter case moves the loop from
\* AwaitingInput to Terminated, and invoke is not called for that line.
C4_SentinelTerminates ==
    [][ (LineRead /\ IsSentinelAnyCase(user_input')) =>
            /\ l_state' = "Terminated"
            /\ l_invoked' = l_invoked
            /\ \A i \in DOMAIN l_invoked' :
                 ~IsSentinelAnyCase(l_invoked'[i][2]) ]_vars

\* The loop ended on 'SaIr' after a dispatched turn.
C4_Witness ==
    /\ l_state = "Terminated"
    /\ user_input = << "S", "a", "I", "r" >>
    /\ Len(l_invoked) >= 1

\* C5: an exception raised by invoke is caught and reported and the loop is
\* back at AwaitingInput; the loop reaches Terminated only from
\* AwaitingInput, on an exit word.
C5_FailedTurnKeepsSession ==
    [][ /\ (l_state = "Dispatching" /\ l_exc' # NoExc) =>
              /\ l_state' = "AwaitingInput"
              /\ l_uncaught' = NoExc
              /\ l_stdout' = Append(l_stdout, << "Error: ", l_exc'.msg >>)
        /\ (l_state # "Terminated" /\ l_state' = "Terminated") =>
              /\ l_state = "AwaitingInput"
              /\ IsSentinelAnyCase(user_input') ]_vars

\* A turn failed, the loop went on and ended later on an exit word.
C5_Witness ==
    /\ l_state = "Terminated"
    /\ Len(l_stdout) >= 2
    /\ IsSentinelAnyCase(user_input)
    /\ l_uncaught = NoExc

====
